---- MODULE Spec2Model ----
(***************************************************************************)
(* Contoso Payments API (app/main.py): the payment store, the idempotency  *)
(* cache and the handlers authorize / capture / void / refund / get /      *)
(* list / receipt.                                                         *)
(*                                                                         *)
(* Spec      : every handler runs to completion (one action per handler).  *)
(* ConcSpec  : the handlers run in worker threads and interleave at the    *)
(*             reads and writes of payments_db / idempotency_cache / the   *)
(*             fields of a Payment (FastAPI runs `def` endpoints in a      *)
(*             thread pool; the source takes no lock).                     *)
(*                                                                         *)
(* Amounts are whole numbers of minor units; an Optional[T] value is the   *)
(* empty tuple (None) or a one-element tuple.  A handler is an operator    *)
(* from the stores and its request to the stores it leaves and the answer  *)
(* it gives; the actions apply the handlers.                               *)
(***************************************************************************)
EXTENDS Integers, Sequences, FiniteSets, TLC

VARIABLES payments_db, idempotency_cache, uuid_count, now, threads

vars == <<payments_db, idempotency_cache, uuid_count, now, threads>>

(* ------------------------------ bounds -------------------------------- *)
MaxAmount == 2
MaxPayments == 2
MaxClock == 1
NumThreads == 2
MaxConcPayments == 2

(* ------------------------- program constants -------------------------- *)
GatewayLimit == 10000

None == <<>>
Some(v) == <<v>>
Val(o) == o[1]

\* Python truthiness of an Optional[str]: None and "" are falsy.
TruthyStr(o) == o # None /\ Val(o) # ""
\* Python truthiness of an Optional[float]: None and 0.0 are falsy.
TruthyNum(o) == o # None /\ Val(o) # 0

PaymentStatus ==
  {"pending", "authorized", "captured", "declined", "failed", "refunded",
   "partially_refunded", "voided"}

PaymentMethod == {"credit_card", "debit_card", "bank_transfer", "digital_wallet"}

CardMethods == {"credit_card", "debit_card"}

(* ------------------------- strings as tuples -------------------------- *)
LowerLetters ==
  <<"a","b","c","d","e","f","g","h","i","j","k","l","m",
    "n","o","p","q","r","s","t","u","v","w","x","y","z">>
UpperLetters ==
  <<"A","B","C","D","E","F","G","H","I","J","K","L","M",
    "N","O","P","Q","R","S","T","U","V","W","X","Y","Z">>

\* the upper-case form of every lower-case letter
UpperOf ==
  [c \in {LowerLetters[i] : i \in 1..26} |->
     UpperLetters[CHOOSE i \in 1..26 : LowerLetters[i] = c]]

UpperChar(c) == IF c \in DOMAIN UpperOf THEN UpperOf[c] ELSE c

\* str.upper()
Upper(s) == [i \in 1..Len(s) |-> UpperChar(s[i])]

\* sub in s
Contains(sub, s) ==
  \E i \in 1..(Len(s) - Len(sub) + 1) : SubSeq(s, i, i + Len(sub) - 1) = sub

DECLINE == <<"D","E","C","L","I","N","E">>
INSUFFICIENT == <<"I","N","S","U","F","F","I","C","I","E","N","T">>
WALLET == <<"W","A","L","L","E","T">>

\* the card tokens a caller may send
TokVisa == <<"t","o","k","-","v","i","s","a">>
TokDeclineTest == <<"d","e","c","l","i","n","e","-","t","e","s","t">>
TokInsufficient == <<"X","-","I","N","S","U","F","F","I","C","I","E","N","T">>
CardTokens == {TokVisa, TokDeclineTest, TokInsufficient}

(* ------------------------------ helpers ------------------------------- *)
generate_auth_code == "AUTHCODE"

simulate_payment_gateway_code_first(amount, card_token) ==
  IF Contains(DECLINE, Upper(card_token))
    THEN [success |-> FALSE, auth_code |-> Some(generate_auth_code),
          decline_reason |-> Some("Card declined by issuer")]
  ELSE IF Contains(INSUFFICIENT, Upper(card_token))
    THEN [success |-> FALSE, auth_code |-> Some(generate_auth_code),
          decline_reason |-> Some("Insufficient funds")]
  ELSE IF amount > GatewayLimit
    THEN [success |-> FALSE, auth_code |-> Some(generate_auth_code),
          decline_reason |-> Some("Amount exceeds limit")]
  ELSE [success |-> TRUE, auth_code |-> Some(generate_auth_code),
        decline_reason |-> None]

\* (success, auth_code, decline_reason)
simulate_payment_gateway(amount, card_token) ==
  IF Contains(DECLINE, Upper(card_token))
    THEN [success |-> FALSE, auth_code |-> None,
          decline_reason |-> Some("Card declined by issuer")]
  ELSE IF Contains(INSUFFICIENT, Upper(card_token))
    THEN [success |-> FALSE, auth_code |-> None,
          decline_reason |-> Some("Insufficient funds")]
  ELSE IF amount > GatewayLimit
    THEN [success |-> FALSE, auth_code |-> None,
          decline_reason |-> Some("Amount exceeds limit")]
  ELSE [success |-> TRUE, auth_code |-> Some(generate_auth_code),
        decline_reason |-> None]

(* ------------------------------ inputs -------------------------------- *)
Amounts == (0..MaxAmount) \cup {GatewayLimit + 1}
RefundAmounts == {None} \cup {Some(a) : a \in 0..(MaxAmount + 1)}
Keys == {None, Some(""), Some("k1")}
Card(t) == Some([card_token |-> t, last_four |-> "4242", brand |-> "visa"])
\* (payment_method, card_details) pairs a caller may send: a card that is
\* approved, a card payment without card details, a card the issuer declines,
\* a wallet payment without a card, a transfer with an overdrawn card
Instruments ==
  {<<"credit_card", Card(TokVisa)>>, <<"debit_card", None>>,
   <<"credit_card", Card(TokDeclineTest)>>, <<"digital_wallet", None>>,
   <<"bank_transfer", Card(TokInsufficient)>>}
\* the request bodies of POST /payments/authorize
PaymentCreate ==
  {[order_id |-> "o1", customer_id |-> "c1", amount |-> a, currency |-> "USD",
    payment_method |-> i[1], card_details |-> i[2], idempotency_key |-> k] :
     a \in Amounts, i \in Instruments, k \in Keys}

PaymentIds == 1..(MaxPayments + 1)

\* pydantic: PaymentCreate.amount is Field(gt=0)
PaymentCreateValid(payment_data) == payment_data.amount > 0
\* pydantic: RefundRequest.amount is Optional, Field(gt=0)
RefundRequestValid(amount) == amount = None \/ Val(amount) > 0

CreatedStatusFailed(verdict) == IF verdict.success THEN "authorized" ELSE "failed"

\* status=AUTHORIZED if success else DECLINED
CreatedStatus(verdict) == IF verdict.success THEN "authorized" ELSE "declined"

\* Payment(...) as authorize_payment constructs it
NewPayment(id, payment_data, verdict, t) ==
  [id |-> id,
   order_id |-> payment_data.order_id,
   customer_id |-> payment_data.customer_id,
   amount |-> payment_data.amount,
   currency |-> payment_data.currency,
   status |-> CreatedStatus(verdict),
   payment_method |-> payment_data.payment_method,
   card_last_four |-> IF payment_data.card_details # None
                        THEN Some(Val(payment_data.card_details).last_four)
                        ELSE None,
   card_brand |-> IF payment_data.card_details # None
                    THEN Some(Val(payment_data.card_details).brand)
                    ELSE None,
   authorization_code |-> verdict.auth_code,
   decline_reason |-> verdict.decline_reason,
   refunded_amount |-> 0,
   idempotency_key |-> payment_data.idempotency_key,
   created_at |-> t,
   updated_at |-> t,
   captured_at |-> None,
   refunded_at |-> None]

\* the card token authorize_payment hands to the gateway
GatewayToken(payment_data) ==
  IF payment_data.card_details # None
    THEN Val(payment_data.card_details).card_token
    ELSE WALLET

IdempotencyNeverHit(key, cache) == FALSE

\* idempotency hit of authorize_payment
IdempotencyHit(key, cache) == TruthyStr(key) /\ Val(key) \in DOMAIN cache

\* card payments need card details
CardDetailsMissing(payment_data) ==
  payment_data.payment_method \in CardMethods /\ payment_data.card_details = None

Put(f, k, v) == [x \in (DOMAIN f) \cup {k} |-> IF x = k THEN v ELSE f[x]]

\* what a handler leaves and answers: the two stores, the number of ids drawn,
\* the HTTP status, the failure it stands for (or "ok"), the id of the payment
\* in the body, and whether the gateway was called
Outcome(db, cache, uuid, code, detail, body, gateway) ==
  [db |-> db, cache |-> cache, uuid |-> uuid, code |-> code, detail |-> detail,
   body |-> body, gateway |-> gateway]

\* raise HTTPException(...): nothing is written
Raise(db, cache, uuid, code, detail) ==
  Outcome(db, cache, uuid, code, detail, None, FALSE)

\* datetime.utcnow() of the call about to run: the clock has not gone back
ClockReadings == {t \in {now, now + 1} : t <= MaxClock}

\* a worker thread: where it stands in its handler, the request it serves, the
\* handler's local variable, and the answer it has decided on
Idle ==
  [pc |-> "idle", op |-> "none", arg |-> None, amount |-> None, loc |-> None, code |-> 0,
   detail |-> "none", body |-> None, gateway |-> FALSE]

Threads == 1..NumThreads

IdleThreads == [th \in Threads |-> Idle]

Init ==
  /\ payments_db = <<>>
  /\ idempotency_cache = <<>>
  /\ uuid_count = 0
  /\ now = 0
  /\ threads = IdleThreads

(* ----------------------- handlers, run to completion ------------------ *)
\* POST /payments/authorize, called at time t
authorize_payment(payment_data, db, cache, uuid, t) ==
  LET key == payment_data.idempotency_key IN
  IF ~PaymentCreateValid(payment_data) THEN
    Raise(db, cache, uuid, 422, "ValidationError")
  ELSE IF IdempotencyHit(key, cache) THEN
    Outcome(db, cache, uuid, 201, "ok", Some(db[cache[Val(key)]].id), FALSE)
  ELSE IF CardDetailsMissing(payment_data) THEN
    Raise(db, cache, uuid, 400, "ValidationError")
  ELSE
    LET verdict == simulate_payment_gateway(payment_data.amount,
                                            GatewayToken(payment_data))
        payment == NewPayment(uuid + 1, payment_data, verdict, t)
        db2 == Put(db, payment.id, payment)
        cache2 == IF TruthyStr(key) THEN Put(cache, Val(key), payment.id) ELSE cache
    IN
    IF verdict.success
      THEN Outcome(db2, cache2, uuid + 1, 201, "ok", Some(payment.id), TRUE)
      ELSE Outcome(db2, cache2, uuid + 1, 402, "PaymentDeclined", Some(payment.id), TRUE)

CaptureRejectsOnlyUncapturable(payment) ==
  payment.status \notin {"authorized", "captured"}

\* the status guard of capture_payment
CaptureRejects(payment) == payment.status # "authorized"

\* POST /payments/{payment_id}/capture
capture_payment(payment_id, db, cache, uuid, t) ==
  IF payment_id \notin DOMAIN db THEN
    Raise(db, cache, uuid, 404, "NotFound")
  ELSE IF CaptureRejects(db[payment_id]) THEN
    Raise(db, cache, uuid, 400, "InvalidStateTransition")
  ELSE
    Outcome([db EXCEPT ![payment_id].status = "captured",
                       ![payment_id].captured_at = Some(t),
                       ![payment_id].updated_at = t],
            cache, uuid, 200, "ok", Some(payment_id), FALSE)

VoidRejectsOnlyUnheld(payment) == payment.status \notin {"authorized", "captured"}

\* the status guard of void_payment
VoidRejects(payment) == payment.status # "authorized"

\* POST /payments/{payment_id}/void
void_payment(payment_id, db, cache, uuid, t) ==
  IF payment_id \notin DOMAIN db THEN
    Raise(db, cache, uuid, 404, "NotFound")
  ELSE IF VoidRejects(db[payment_id]) THEN
    Raise(db, cache, uuid, 400, "InvalidStateTransition")
  ELSE
    Outcome([db EXCEPT ![payment_id].status = "voided",
                       ![payment_id].updated_at = t],
            cache, uuid, 200, "ok", Some(payment_id), FALSE)

RefundAmountClamped(payment, amount) ==
  LET remaining == payment.amount - payment.refunded_amount IN
  IF TruthyNum(amount)
    THEN (IF Val(amount) > remaining THEN remaining ELSE Val(amount))
    ELSE remaining

\* refund.amount or (payment.amount - payment.refunded_amount)
RefundAmount(payment, amount) ==
  IF TruthyNum(amount) THEN Val(amount)
                       ELSE payment.amount - payment.refunded_amount

ExceedsOriginalAmount(payment, refund_amount) == refund_amount > payment.amount

\* the refund guard: the amount exceeds the remaining balance
ExceedsRemaining(payment, refund_amount) ==
  refund_amount > payment.amount - payment.refunded_amount

StatusAfterRefundStrict(payment) ==
  IF payment.refunded_amount > payment.amount THEN "refunded"
                                              ELSE "partially_refunded"

StatusAfterRefundAlwaysRefunded(payment) == "refunded"

\* the status a refund leaves behind
StatusAfterRefund(payment) ==
  IF payment.refunded_amount >= payment.amount THEN "refunded"
                                               ELSE "partially_refunded"

RefundableAlsoAuthorized == {"authorized", "captured", "partially_refunded"}
RefundableAlsoRefunded == {"captured", "partially_refunded", "refunded"}

\* the statuses refund_payment accepts
Refundable == {"captured", "partially_refunded"}

ApplyRefundDebitsAmount(payment, refund_amount, t) ==
  [payment EXCEPT !.amount = payment.amount - refund_amount,
                  !.refunded_at = Some(t),
                  !.updated_at = t,
                  !.status = IF payment.amount = refund_amount
                               THEN "refunded" ELSE "partially_refunded"]

\* the writes of a refund that passed its guards
ApplyRefund(payment, refund_amount, t) ==
  LET refunded == [payment EXCEPT
                     !.refunded_amount = payment.refunded_amount + refund_amount,
                     !.refunded_at = Some(t),
                     !.updated_at = t]
  IN [refunded EXCEPT !.status = StatusAfterRefund(refunded)]

\* POST /payments/{payment_id}/refund
refund_payment(payment_id, amount, db, cache, uuid, t) ==
  IF ~RefundRequestValid(amount) THEN
    Raise(db, cache, uuid, 422, "ValidationError")
  ELSE IF payment_id \notin DOMAIN db THEN
    Raise(db, cache, uuid, 404, "NotFound")
  ELSE IF db[payment_id].status \notin Refundable THEN
    Raise(db, cache, uuid, 400, "InvalidStateTransition")
  ELSE
    LET payment == db[payment_id]
        refund_amount == RefundAmount(payment, amount)
    IN
    IF ExceedsRemaining(payment, refund_amount) THEN
      Raise(db, cache, uuid, 400, "InvalidRefundAmount")
    ELSE
      Outcome([db EXCEPT ![payment_id] = ApplyRefund(payment, refund_amount, t)],
              cache, uuid, 200, "ok", Some(payment_id), FALSE)

\* GET /payments/{payment_id}: the body is the stored record
get_payment(payment_id, db, cache, uuid) ==
  IF payment_id \notin DOMAIN db THEN
    Raise(db, cache, uuid, 404, "NotFound")
  ELSE
    Outcome(db, cache, uuid, 200, "ok", Some(db[payment_id]), FALSE)

\* list(payments_db.values()): the records in insertion order, which is the
\* order of their ids when every authorize runs to completion
Values(db) == [i \in 1..Cardinality(DOMAIN db) |-> db[i]]

\* payments[:limit], a negative limit counting from the end
Slice(payments, limit) ==
  LET n == Len(payments)
      stop == IF limit >= 0 THEN (IF limit < n THEN limit ELSE n)
                            ELSE (IF n + limit > 0 THEN n + limit ELSE 0)
  IN SubSeq(payments, 1, stop)

\* the query parameters of GET /payments
OrderIdFilters == {None, Some(""), Some("o1"), Some("o2")}
CustomerIdFilters == {None, Some("c1")}
StatusFilters == {None, Some("captured")}
Limits == {-1, 1, 50}

\* GET /payments: a filter applies when its parameter is truthy
list_payments(order_id, customer_id, status, limit, db, cache, uuid) ==
  LET ByOrder(p) == TruthyStr(order_id) => p.order_id = Val(order_id)
      ByCustomer(p) == TruthyStr(customer_id) => p.customer_id = Val(customer_id)
      ByStatus(p) == status # None => p.status = Val(status)
      payments == SelectSeq(SelectSeq(SelectSeq(Values(db), ByOrder),
                                      ByCustomer), ByStatus)
  IN Outcome(db, cache, uuid, 200, "ok", Some(Slice(payments, limit)), FALSE)

ReceiptStatusesAlsoAuthorized ==
  {"authorized", "captured", "refunded", "partially_refunded"}

\* the statuses get_receipt accepts
ReceiptStatuses == {"captured", "refunded", "partially_refunded"}

\* datetime.isoformat(): the text of the instant
isoformat(t) == <<"T", t>>

\* the dict get_receipt returns
Receipt(payment) ==
  [receipt_id |-> <<"RCP-", payment.id>>,
   payment_id |-> payment.id,
   order_id |-> payment.order_id,
   amount |-> payment.amount,
   currency |-> payment.currency,
   status |-> payment.status,
   payment_method |-> payment.payment_method,
   card_last_four |-> IF TruthyStr(payment.card_last_four)
                        THEN Some("****" \o Val(payment.card_last_four))
                        ELSE None,
   authorization_code |-> payment.authorization_code,
   captured_at |-> IF payment.captured_at # None
                     THEN Some(isoformat(Val(payment.captured_at)))
                     ELSE None,
   refunded_amount |-> IF payment.refunded_amount > 0
                         THEN Some(payment.refunded_amount)
                         ELSE None]

\* GET /payments/{payment_id}/receipt
get_receipt(payment_id, db, cache, uuid) ==
  IF payment_id \notin DOMAIN db THEN
    Raise(db, cache, uuid, 404, "NotFound")
  ELSE IF db[payment_id].status \notin ReceiptStatuses THEN
    Raise(db, cache, uuid, 400, "ReceiptUnavailable")
  ELSE
    Outcome(db, cache, uuid, 200, "ok", Some(Receipt(db[payment_id])), FALSE)

\* a handler ran to completion and left o
Commit(o, t) ==
  /\ o.uuid <= MaxPayments
  /\ payments_db' = o.db
  /\ idempotency_cache' = o.cache
  /\ uuid_count' = o.uuid
  /\ now' = t
  /\ UNCHANGED threads

Authorize ==
  \E payment_data \in PaymentCreate, t \in ClockReadings :
    \E o \in {authorize_payment(payment_data, payments_db, idempotency_cache,
                                uuid_count, t)} : Commit(o, t)
Capture ==
  \E payment_id \in PaymentIds, t \in ClockReadings :
    \E o \in {capture_payment(payment_id, payments_db, idempotency_cache,
                              uuid_count, t)} : Commit(o, t)
Void ==
  \E payment_id \in PaymentIds, t \in ClockReadings :
    \E o \in {void_payment(payment_id, payments_db, idempotency_cache,
                           uuid_count, t)} : Commit(o, t)
Refund ==
  \E payment_id \in PaymentIds, amount \in RefundAmounts, t \in ClockReadings :
    \E o \in {refund_payment(payment_id, amount, payments_db, idempotency_cache,
                             uuid_count, t)} : Commit(o, t)
GetPayment ==
  \E payment_id \in PaymentIds :
    \E o \in {get_payment(payment_id, payments_db, idempotency_cache,
                          uuid_count)} : Commit(o, now)
ListPayments ==
  \E order_id \in OrderIdFilters, customer_id \in CustomerIdFilters,
     status \in StatusFilters, limit \in Limits :
    \E o \in {list_payments(order_id, customer_id, status, limit, payments_db,
                            idempotency_cache, uuid_count)} : Commit(o, now)
GetReceipt ==
  \E payment_id \in PaymentIds :
    \E o \in {get_receipt(payment_id, payments_db, idempotency_cache,
                          uuid_count)} : Commit(o, now)

Next ==
  \/ Authorize \/ Capture \/ Void \/ Refund
  \/ GetPayment \/ ListPayments \/ GetReceipt

Spec == Init /\ [][Next]_vars

(* --------------- handlers in worker threads, step by step -------------- *)
\* the requests the threads serve
ConcCreates ==
  {pd \in PaymentCreate :
     pd.amount = 1 /\ pd.idempotency_key \in {None, Some("k1")}
       /\ pd.payment_method \in {"credit_card", "debit_card"}}
ConcPaymentIds == 1..(MaxConcPayments + 1)

Step(th, r) == threads' = [threads EXCEPT ![th] = r]

Answer(th, code, detail, body) ==
  Step(th, [threads[th] EXCEPT !.pc = "done", !.code = code, !.detail = detail,
                                !.body = body])

\* authorize_payment up to the construction of the Payment: the idempotency
\* check reads the cache; the gateway call and Payment(...) touch nothing shared
CallAuthorize(th, payment_data) ==
  /\ threads[th].pc = "idle"
  /\ LET key == payment_data.idempotency_key
         me == [Idle EXCEPT !.op = "authorize", !.arg = Some(payment_data)]
     IN
     IF ~PaymentCreateValid(payment_data) THEN
       /\ Step(th, [me EXCEPT !.pc = "done", !.code = 422, !.detail = "ValidationError"])
       /\ UNCHANGED <<payments_db, idempotency_cache, uuid_count, now>>
     ELSE IF IdempotencyHit(key, idempotency_cache) THEN
       /\ Step(th, [me EXCEPT !.pc = "a_hit", !.loc = Some(idempotency_cache[Val(key)])])
       /\ UNCHANGED <<payments_db, idempotency_cache, uuid_count, now>>
     ELSE IF CardDetailsMissing(payment_data) THEN
       /\ Step(th, [me EXCEPT !.pc = "done", !.code = 400, !.detail = "ValidationError"])
       /\ UNCHANGED <<payments_db, idempotency_cache, uuid_count, now>>
     ELSE
       /\ uuid_count < MaxConcPayments
       /\ \E t \in ClockReadings :
            LET verdict == simulate_payment_gateway(payment_data.amount,
                                                    GatewayToken(payment_data))
                payment == NewPayment(uuid_count + 1, payment_data, verdict, t)
            IN
            /\ Step(th, [me EXCEPT !.pc = "a_insert", !.loc = Some(payment),
                                   !.gateway = TRUE,
                                   !.code = IF verdict.success THEN 201 ELSE 402,
                                   !.detail = IF verdict.success THEN "ok"
                                                                 ELSE "PaymentDeclined"])
            /\ now' = t
       /\ uuid_count' = uuid_count + 1
       /\ UNCHANGED <<payments_db, idempotency_cache>>

\* return payments_db[existing_id]
AuthorizeHit(th) ==
  /\ threads[th].pc = "a_hit"
  /\ Answer(th, 201, "ok", Some(payments_db[Val(threads[th].loc)].id))
  /\ UNCHANGED <<payments_db, idempotency_cache, uuid_count, now>>

AuthorizeInsertSkipped(th) ==
  /\ threads[th].pc = "a_insert"
  /\ Step(th, [threads[th] EXCEPT !.pc = "a_register"])
  /\ UNCHANGED <<payments_db, idempotency_cache, uuid_count, now>>

\* payments_db[payment.id] = payment
AuthorizeInsert(th) ==
  /\ threads[th].pc = "a_insert"
  /\ payments_db' = Put(payments_db, Val(threads[th].loc).id, Val(threads[th].loc))
  /\ Step(th, [threads[th] EXCEPT !.pc = "a_register"])
  /\ UNCHANGED <<idempotency_cache, uuid_count, now>>

\* idempotency_cache[key] = payment.id, then the answer
AuthorizeRegister(th) ==
  /\ threads[th].pc = "a_register"
  /\ LET key == Val(threads[th].arg).idempotency_key
         id == Val(threads[th].loc).id
     IN /\ idempotency_cache' =
             IF TruthyStr(key) THEN Put(idempotency_cache, Val(key), id)
                               ELSE idempotency_cache
        /\ Answer(th, threads[th].code, threads[th].detail, Some(id))
  /\ UNCHANGED <<payments_db, uuid_count, now>>

\* capture_payment up to payment = payments_db[payment_id]
CallCapture(th, payment_id) ==
  /\ threads[th].pc = "idle"
  /\ LET me == [Idle EXCEPT !.op = "capture", !.arg = Some(payment_id)] IN
     IF payment_id \notin DOMAIN payments_db
       THEN Step(th, [me EXCEPT !.pc = "done", !.code = 404, !.detail = "NotFound"])
       ELSE Step(th, [me EXCEPT !.pc = "t_check"])
  /\ UNCHANGED <<payments_db, idempotency_cache, uuid_count, now>>

\* void_payment up to payment = payments_db[payment_id]
CallVoid(th, payment_id) ==
  /\ threads[th].pc = "idle"
  /\ LET me == [Idle EXCEPT !.op = "void", !.arg = Some(payment_id)] IN
     IF payment_id \notin DOMAIN payments_db
       THEN Step(th, [me EXCEPT !.pc = "done", !.code = 404, !.detail = "NotFound"])
       ELSE Step(th, [me EXCEPT !.pc = "t_check"])
  /\ UNCHANGED <<payments_db, idempotency_cache, uuid_count, now>>

\* capture_payment: if payment.status != PaymentStatus.AUTHORIZED: raise
CaptureCheck(th) ==
  /\ threads[th].pc = "t_check" /\ threads[th].op = "capture"
  /\ IF CaptureRejects(payments_db[Val(threads[th].arg)])
       THEN Answer(th, 400, "InvalidStateTransition", None)
       ELSE Step(th, [threads[th] EXCEPT !.pc = "t_status"])
  /\ UNCHANGED <<payments_db, idempotency_cache, uuid_count, now>>

\* void_payment: if payment.status != PaymentStatus.AUTHORIZED: raise
VoidCheck(th) ==
  /\ threads[th].pc = "t_check" /\ threads[th].op = "void"
  /\ IF VoidRejects(payments_db[Val(threads[th].arg)])
       THEN Answer(th, 400, "InvalidStateTransition", None)
       ELSE Step(th, [threads[th] EXCEPT !.pc = "t_status"])
  /\ UNCHANGED <<payments_db, idempotency_cache, uuid_count, now>>

\* payment.status = PaymentStatus.CAPTURED
CaptureWriteStatus(th) ==
  /\ threads[th].pc = "t_status" /\ threads[th].op = "capture"
  /\ payments_db' = [payments_db EXCEPT ![Val(threads[th].arg)].status = "captured"]
  /\ Step(th, [threads[th] EXCEPT !.pc = "t_stamp"])
  /\ UNCHANGED <<idempotency_cache, uuid_count, now>>

\* payment.captured_at = utcnow(); payment.updated_at = utcnow(); return
CaptureWriteTimes(th) ==
  /\ threads[th].pc = "t_stamp" /\ threads[th].op = "capture"
  /\ \E t \in ClockReadings :
       /\ payments_db' = [payments_db EXCEPT ![Val(threads[th].arg)].captured_at = Some(t),
                                             ![Val(threads[th].arg)].updated_at = t]
       /\ now' = t
  /\ Answer(th, 200, "ok", threads[th].arg)
  /\ UNCHANGED <<idempotency_cache, uuid_count>>

\* payment.status = PaymentStatus.VOIDED
VoidWriteStatus(th) ==
  /\ threads[th].pc = "t_status" /\ threads[th].op = "void"
  /\ payments_db' = [payments_db EXCEPT ![Val(threads[th].arg)].status = "voided"]
  /\ Step(th, [threads[th] EXCEPT !.pc = "t_stamp"])
  /\ UNCHANGED <<idempotency_cache, uuid_count, now>>

\* payment.updated_at = utcnow(); return
VoidWriteTimes(th) ==
  /\ threads[th].pc = "t_stamp" /\ threads[th].op = "void"
  /\ \E t \in ClockReadings :
       /\ payments_db' = [payments_db EXCEPT ![Val(threads[th].arg)].updated_at = t]
       /\ now' = t
  /\ Answer(th, 200, "ok", threads[th].arg)
  /\ UNCHANGED <<idempotency_cache, uuid_count>>

\* the request bodies of POST /payments/{payment_id}/refund sent concurrently
ConcRefundAmounts == {None, Some(1)}
\* the ids they address: the first payment and an id that is unknown
ConcRefundIds == {1, MaxConcPayments + 1}

\* refund_payment up to payment = payments_db[payment_id]
CallRefund(th, payment_id, amount) ==
  /\ threads[th].pc = "idle"
  /\ LET me == [Idle EXCEPT !.op = "refund", !.arg = Some(payment_id),
                            !.amount = amount]
     IN
     IF ~RefundRequestValid(amount)
       THEN Step(th, [me EXCEPT !.pc = "done", !.code = 422, !.detail = "ValidationError"])
     ELSE IF payment_id \notin DOMAIN payments_db
       THEN Step(th, [me EXCEPT !.pc = "done", !.code = 404, !.detail = "NotFound"])
       ELSE Step(th, [me EXCEPT !.pc = "r_check"])
  /\ UNCHANGED <<payments_db, idempotency_cache, uuid_count, now>>

\* the status check, refund_amount = ..., and the guard on the remaining
\* balance; the thread keeps refund_amount
RefundCheck(th) ==
  /\ threads[th].pc = "r_check"
  /\ LET payment == payments_db[Val(threads[th].arg)]
         refund_amount == RefundAmount(payment, threads[th].amount)
     IN
     IF payment.status \notin Refundable
       THEN Answer(th, 400, "InvalidStateTransition", None)
     ELSE IF ExceedsRemaining(payment, refund_amount)
       THEN Answer(th, 400, "InvalidRefundAmount", None)
       ELSE Step(th, [threads[th] EXCEPT !.pc = "r_load",
                                         !.amount = Some(refund_amount)])
  /\ UNCHANGED <<payments_db, idempotency_cache, uuid_count, now>>

\* payment.refunded_amount += refund_amount, first half: the sum is computed
\* from the value read now
RefundLoad(th) ==
  /\ threads[th].pc = "r_load"
  /\ Step(th, [threads[th] EXCEPT
                 !.pc = "r_store",
                 !.loc = Some(payments_db[Val(threads[th].arg)].refunded_amount
                                + Val(threads[th].amount))])
  /\ UNCHANGED <<payments_db, idempotency_cache, uuid_count, now>>

\* payment.refunded_amount += refund_amount, second half: the sum is stored
RefundStore(th) ==
  /\ threads[th].pc = "r_store"
  /\ payments_db' = [payments_db EXCEPT
                       ![Val(threads[th].arg)].refunded_amount = Val(threads[th].loc)]
  /\ Step(th, [threads[th] EXCEPT !.pc = "r_stamp"])
  /\ UNCHANGED <<idempotency_cache, uuid_count, now>>

\* payment.refunded_at = utcnow(); payment.updated_at = utcnow()
RefundWriteTimes(th) ==
  /\ threads[th].pc = "r_stamp"
  /\ \E t \in ClockReadings :
       /\ payments_db' = [payments_db EXCEPT ![Val(threads[th].arg)].refunded_at = Some(t),
                                             ![Val(threads[th].arg)].updated_at = t]
       /\ now' = t
  /\ Step(th, [threads[th] EXCEPT !.pc = "r_status"])
  /\ UNCHANGED <<idempotency_cache, uuid_count>>

\* payment.status = REFUNDED or PARTIALLY_REFUNDED, from the total as it is
\* now; return
RefundWriteStatus(th) ==
  /\ threads[th].pc = "r_status"
  /\ payments_db' = [payments_db EXCEPT
                       ![Val(threads[th].arg)].status =
                          StatusAfterRefund(payments_db[Val(threads[th].arg)])]
  /\ Answer(th, 200, "ok", threads[th].arg)
  /\ UNCHANGED <<idempotency_cache, uuid_count, now>>

\* the answer is sent and the thread goes back to the pool
Respond(th) ==
  /\ threads[th].pc = "done"
  /\ Step(th, Idle)
  /\ UNCHANGED <<payments_db, idempotency_cache, uuid_count, now>>

ConcNext ==
  \E th \in Threads :
    \/ \E payment_data \in ConcCreates : CallAuthorize(th, payment_data)
    \/ AuthorizeHit(th)
    \/ AuthorizeInsert(th)
    \/ AuthorizeRegister(th)
    \/ \E payment_id \in ConcPaymentIds : CallCapture(th, payment_id)
    \/ \E payment_id \in ConcPaymentIds : CallVoid(th, payment_id)
    \/ CaptureCheck(th)
    \/ CaptureWriteStatus(th)
    \/ CaptureWriteTimes(th)
    \/ VoidCheck(th)
    \/ VoidWriteStatus(th)
    \/ VoidWriteTimes(th)
    \/ \E payment_id \in ConcRefundIds, amount \in ConcRefundAmounts :
         CallRefund(th, payment_id, amount)
    \/ RefundCheck(th)
    \/ RefundLoad(th)
    \/ RefundStore(th)
    \/ RefundWriteTimes(th)
    \/ RefundWriteStatus(th)
    \/ Respond(th)

ConcSpec == Init /\ [][ConcNext]_vars

(* ======================= the claims, under Spec ======================== *)
Stored == DOMAIN payments_db
Times == 0..MaxClock
ValidCreates == {pd \in PaymentCreate : PaymentCreateValid(pd)}
ValidRefundAmounts == {a \in RefundAmounts : RefundRequestValid(a)}

AuthorizeOutcome(pd, t) ==
  authorize_payment(pd, payments_db, idempotency_cache, uuid_count, t)
CaptureOutcome(id, t) ==
  capture_payment(id, payments_db, idempotency_cache, uuid_count, t)
VoidOutcome(id, t) ==
  void_payment(id, payments_db, idempotency_cache, uuid_count, t)
RefundOutcome(id, amount, t) ==
  refund_payment(id, amount, payments_db, idempotency_cache, uuid_count, t)

\* C1: every stored payment has 0 <= refunded_amount <= amount, whatever
\* authorize, capture, void and refund calls (amount supplied or omitted) ran.
C1_RefundedWithinAmount ==
  \A id \in Stored :
    /\ 0 <= payments_db[id].refunded_amount
    /\ payments_db[id].refunded_amount <= payments_db[id].amount

\* C1 witness: a payment refunded in two parts up to its full amount next to
\* a payment refunded in part.
C1_Witness ==
  \E id \in Stored, other \in Stored :
    /\ payments_db[id].refunded_amount = payments_db[id].amount
    /\ payments_db[id].status = "refunded"
    /\ payments_db[other].refunded_amount > 0
    /\ payments_db[other].refunded_amount < payments_db[other].amount

\* C3: an authorize call whose idempotency key is in the idempotency index
\* answers with the payment registered for that key (which carries the key),
\* calls no gateway, creates no record and leaves store and index as they
\* were; and no two stored payments carry the same registered key.
C3_IdempotentAuthorize ==
  /\ \A pd \in ValidCreates, t \in Times :
       (pd.idempotency_key # None /\ Val(pd.idempotency_key) \in DOMAIN idempotency_cache)
         => LET o == AuthorizeOutcome(pd, t)
                original == idempotency_cache[Val(pd.idempotency_key)]
            IN /\ o.code = 201
               /\ o.body = Some(original)
               /\ original \in Stored
               /\ payments_db[original].idempotency_key = pd.idempotency_key
               /\ ~o.gateway
               /\ o.db = payments_db
               /\ o.cache = idempotency_cache
               /\ o.uuid = uuid_count
  /\ \A a \in Stored, b \in Stored :
       (/\ TruthyStr(payments_db[a].idempotency_key)
        /\ payments_db[a].idempotency_key = payments_db[b].idempotency_key) => a = b

\* C3 witness: a key is registered and a second payment exists beside the
\* one created for it.
C3_Witness ==
  /\ "k1" \in DOMAIN idempotency_cache
  /\ Cardinality(Stored) = 2
  /\ AuthorizeOutcome(CHOOSE pd \in ValidCreates : pd.idempotency_key = Some("k1"),
                      now).body = Some(idempotency_cache["k1"])

StatusEdges ==
  {<<"authorized", "captured">>, <<"authorized", "voided">>,
   <<"captured", "refunded">>, <<"captured", "partially_refunded">>,
   <<"partially_refunded", "refunded">>,
   <<"partially_refunded", "partially_refunded">>}

\* C4: every change of a stored payment's status is one of the listed edges;
\* a declined, failed, voided or refunded payment keeps its status.
C4_StatusEdges ==
  [][\A id \in Stored :
       /\ id \in DOMAIN payments_db'
       /\ payments_db'[id].status # payments_db[id].status
            => <<payments_db[id].status, payments_db'[id].status>> \in StatusEdges
       /\ payments_db[id].status \in {"declined", "failed", "voided", "refunded"}
            => payments_db'[id].status = payments_db[id].status]_vars

\* C4 witness: one payment went authorized -> captured -> partially_refunded
\* -> refunded while another was voided.
C4_Witness ==
  \E id \in Stored, other \in Stored :
    /\ payments_db[id].status = "refunded"
    /\ payments_db[other].status \in {"voided", "declined"}

\* C6: a capture on a payment that was captured fails with
\* InvalidStateTransition, and captured_at, once set, is never changed.
C6_CaptureOnce ==
  /\ [](\A id \in Stored, t \in Times :
          payments_db[id].captured_at # None
            => /\ CaptureOutcome(id, t).detail = "InvalidStateTransition"
               /\ CaptureOutcome(id, t).db = payments_db)
  /\ [][\A id \in Stored :
          payments_db[id].captured_at # None
            => payments_db'[id].captured_at = payments_db[id].captured_at]_vars

\* C6 witness: a payment captured at time 0 is still there, refunded, at a
\* later time.
C6_Witness ==
  \E id \in Stored :
    /\ payments_db[id].captured_at = Some(0)
    /\ payments_db[id].status = "refunded"
    /\ now > 0

\* C7: void fails with InvalidStateTransition on a captured payment (status
\* captured, partially_refunded or refunded); it succeeds on an authorized
\* payment and leaves it voided; it fails on a voided payment.
C7_VoidOnlyBeforeCapture ==
  \A id \in Stored, t \in Times :
    LET o == VoidOutcome(id, t) IN
    /\ payments_db[id].status \in {"captured", "partially_refunded", "refunded"}
         => o.detail = "InvalidStateTransition" /\ o.db = payments_db
    /\ payments_db[id].status = "authorized"
         => /\ payments_db[id].captured_at = None
            /\ o.code = 200
            /\ o.db[id].status = "voided"
    /\ payments_db[id].status = "voided"
         => o.detail = "InvalidStateTransition" /\ o.db = payments_db

\* C7 witness: one payment was voided and another was captured.
C7_Witness ==
  \E id \in Stored, other \in Stored :
    /\ payments_db[id].status = "voided"
    /\ payments_db[other].status = "captured"

\* C8: a successful refund runs on a captured or partially_refunded payment,
\* adds the supplied amount (the whole remaining balance when none is
\* supplied) to refunded_amount, and leaves status refunded iff
\* refunded_amount equals amount, partially_refunded otherwise.
C8_RefundEffect ==
  \A id \in Stored, amount \in ValidRefundAmounts, t \in Times :
    LET o == RefundOutcome(id, amount, t)
        before == payments_db[id]
    IN o.code = 200 =>
         /\ before.status \in {"captured", "partially_refunded"}
         /\ o.db[id].refunded_amount =
              before.refunded_amount +
                (IF amount # None THEN Val(amount)
                                  ELSE before.amount - before.refunded_amount)
         /\ o.db[id].status = "refunded"
              <=> o.db[id].refunded_amount = before.amount
         /\ o.db[id].status # "refunded" => o.db[id].status = "partially_refunded"

\* C8 witness: a partial refund has run and both a further partial refund and
\* a refund of the remaining balance succeed.
C8_Witness ==
  \E id \in Stored :
    /\ payments_db[id].status = "partially_refunded"
    /\ payments_db[id].refunded_at # None
    /\ RefundOutcome(id, None, now).code = 200
    /\ RefundOutcome(id, Some(1), now).code = 200

FullyRefunded(id) ==
  /\ payments_db[id].refunded_at # None
  /\ payments_db[id].refunded_amount = payments_db[id].amount

\* C9 as stated: once the refunds add up to the full amount, a refund with a
\* positive amount fails with InvalidRefundAmount.
C9_AsStated ==
  \A id \in Stored, amount \in ValidRefundAmounts, t \in Times :
    (FullyRefunded(id) /\ amount # None)
      => RefundOutcome(id, amount, t).detail = "InvalidRefundAmount"

\* C9 amended: once the refunds add up to the full amount, the payment is
\* refunded and every further refund, with or without an amount, fails with
\* InvalidStateTransition and changes nothing.
C9_RefundAfterFullRefund ==
  \A id \in Stored, amount \in ValidRefundAmounts, t \in Times :
    FullyRefunded(id)
      => /\ payments_db[id].status = "refunded"
         /\ RefundOutcome(id, amount, t).detail = "InvalidStateTransition"
         /\ RefundOutcome(id, amount, t).code = 400
         /\ RefundOutcome(id, amount, t).db = payments_db

\* C9 witness: a payment of 2, captured and later refunded up to its full
\* amount (by refund(1) twice, refund(2), or refund() with no amount).
C9_Witness ==
  \E id \in Stored :
    /\ FullyRefunded(id)
    /\ payments_db[id].amount = 2
    /\ payments_db[id].updated_at > Val(payments_db[id].captured_at)

C11_AsStated ==
  \A id \in Stored :
    payments_db[id].authorization_code # None
      <=> payments_db[id].status \in
            {"authorized", "captured", "refunded", "partially_refunded"}

\* C11 amended: a stored payment has an authorization_code iff the gateway
\* granted the hold, that is iff its status is authorized, captured,
\* refunded, partially_refunded or voided; a declined payment has none.
C11_AuthCodeIffHoldGranted ==
  \A id \in Stored :
    /\ payments_db[id].authorization_code # None
         <=> payments_db[id].status \in
               {"authorized", "captured", "refunded", "partially_refunded", "voided"}
    /\ payments_db[id].authorization_code = None
         <=> payments_db[id].status = "declined"

\* C11 witness: a voided payment, which keeps its authorization code, beside
\* a declined payment, which has none.
C11_Witness ==
  \E id \in Stored, other \in Stored :
    /\ payments_db[id].status = "voided"
    /\ payments_db[id].authorization_code # None
    /\ payments_db[other].status = "declined"
    /\ payments_db[other].authorization_code = None

\* C12: every authorize call that answers with success (201), whether it
\* created the record or was answered from the idempotency index, returns a
\* payment whose status is authorized.
C12_SuccessIsAuthorized ==
  \A pd \in ValidCreates, t \in Times :
    LET o == AuthorizeOutcome(pd, t) IN
    o.code = 201 => o.db[Val(o.body)].status = "authorized"

\* C13: an authorize call for a card-class method without card details is
\* answered with ValidationError, consults no gateway, creates no record and
\* registers no idempotency key.
C13_CardMethodNeedsInstrument ==
  \A pd \in ValidCreates, t \in Times :
    (pd.payment_method \in CardMethods /\ pd.card_details = None)
      => LET o == AuthorizeOutcome(pd, t) IN
         /\ o.code \in {400, 422}
         /\ o.detail = "ValidationError"
         /\ ~o.gateway
         /\ o.db = payments_db
         /\ o.cache = idempotency_cache
         /\ o.uuid = uuid_count

Untouched(o) ==
  /\ o.db = payments_db
  /\ o.cache = idempotency_cache
  /\ o.uuid = uuid_count

\* C14: a capture, void or refund call that fails leaves the payment store
\* and the idempotency index exactly as they were: an unknown id is answered
\* NotFound, an illegal status InvalidStateTransition, and a refund above the
\* remaining balance InvalidRefundAmount, rejected and never clamped.
C14_FailedCallChangesNothing ==
  \A id \in PaymentIds, t \in Times :
    LET c == CaptureOutcome(id, t)
        v == VoidOutcome(id, t)
    IN
    /\ c.code # 200 => Untouched(c)
    /\ v.code # 200 => Untouched(v)
    /\ id \notin Stored
         => /\ c.code = 404 /\ c.detail = "NotFound"
            /\ v.code = 404 /\ v.detail = "NotFound"
    /\ (id \in Stored /\ payments_db[id].status # "authorized")
         => /\ c.code = 400 /\ c.detail = "InvalidStateTransition"
            /\ v.code = 400 /\ v.detail = "InvalidStateTransition"
    /\ \A amount \in RefundAmounts :
         LET r == RefundOutcome(id, amount, t) IN
         /\ r.code # 200 => Untouched(r)
         /\ RefundRequestValid(amount) =>
              /\ id \notin Stored => r.code = 404 /\ r.detail = "NotFound"
              /\ (id \in Stored /\ payments_db[id].status \notin Refundable)
                   => r.code = 400 /\ r.detail = "InvalidStateTransition"
              /\ (/\ id \in Stored
                  /\ payments_db[id].status \in Refundable
                  /\ amount # None
                  /\ Val(amount) > payments_db[id].amount
                                     - payments_db[id].refunded_amount)
                   => r.code = 400 /\ r.detail = "InvalidRefundAmount"

\* C14 witness: with a key registered, a partially refunded payment on which
\* a refund above the remaining balance, a capture and a void all fail, while
\* another id is still unknown.
C14_Witness ==
  \E id \in Stored, amount \in ValidRefundAmounts :
    /\ idempotency_cache # <<>>
    /\ payments_db[id].status = "partially_refunded"
    /\ amount # None
    /\ Val(amount) <= payments_db[id].amount
    /\ RefundOutcome(id, amount, now).detail = "InvalidRefundAmount"
    /\ CaptureOutcome(id, now).detail = "InvalidStateTransition"
    /\ VoidOutcome(id, now).detail = "InvalidStateTransition"
    /\ \E other \in PaymentIds : CaptureOutcome(other, now).detail = "NotFound"

GetOutcome(id) == get_payment(id, payments_db, idempotency_cache, uuid_count)
ReceiptOutcome(id) == get_receipt(id, payments_db, idempotency_cache, uuid_count)
ListOutcome(order_id, customer_id, status, limit) ==
  list_payments(order_id, customer_id, status, limit, payments_db,
                idempotency_cache, uuid_count)

\* C15: getReceipt succeeds iff the payment exists and its status is captured,
\* refunded or partially_refunded; otherwise it answers NotFound (unknown id)
\* or ReceiptUnavailable; and getReceipt, getPayment and listPayments leave
\* the payment store and the idempotency index unchanged in every case.
C15_ReceiptAndReadsChangeNothing ==
  /\ \A id \in PaymentIds :
       LET r == ReceiptOutcome(id)
           g == GetOutcome(id)
           completed == /\ id \in Stored
                        /\ payments_db[id].status \in
                             {"captured", "refunded", "partially_refunded"}
       IN
       /\ r.code = 200 <=> completed
       /\ completed => r.body = Some(Receipt(payments_db[id]))
       /\ id \notin Stored => r.code = 404 /\ r.detail = "NotFound"
       /\ (id \in Stored /\ ~completed)
            => r.code = 400 /\ r.detail = "ReceiptUnavailable"
       /\ Untouched(r)
       /\ Untouched(g)
       /\ id \in Stored => g.code = 200 /\ g.body = Some(payments_db[id])
       /\ id \notin Stored => g.code = 404 /\ g.detail = "NotFound"
  /\ \A order_id \in OrderIdFilters, customer_id \in CustomerIdFilters,
        status \in StatusFilters, limit \in Limits :
       LET l == ListOutcome(order_id, customer_id, status, limit) IN
       /\ l.code = 200
       /\ Untouched(l)

\* C15 witness: a refunded payment whose receipt is issued, beside an
\* authorized payment whose receipt is refused and an id that is unknown,
\* with a key registered and a listing that returns a record.
C15_Witness ==
  \E id \in Stored, held \in Stored, unknown \in PaymentIds :
    /\ idempotency_cache # <<>>
    /\ payments_db[id].status = "partially_refunded"
    /\ ReceiptOutcome(id).code = 200
    /\ payments_db[held].status = "authorized"
    /\ ReceiptOutcome(held).detail = "ReceiptUnavailable"
    /\ ReceiptOutcome(unknown).detail = "NotFound"
    /\ Len(Val(ListOutcome(None, None, Some("captured"), 50).body)) = 0
    /\ Len(Val(ListOutcome(Some("o1"), None, None, -1).body)) = 1

\* C17: refunded_at is set once, by the first successful refund of a payment;
\* a later successful refund of the same payment leaves it unchanged.
C17_RefundedAtSetOnce ==
  [][\A id \in Stored :
       payments_db[id].refunded_at # None
         => payments_db'[id].refunded_at = payments_db[id].refunded_at]_vars

\* the fields the claim calls fixed at creation
Fixed(p) ==
  <<p.id, p.order_id, p.customer_id, p.amount, p.currency, p.idempotency_key,
    p.authorization_code, p.decline_reason>>

\* p with the fields a transition may write blanked out
Rest(p) ==
  [p EXCEPT !.status = "any", !.refunded_amount = 0, !.updated_at = 0,
            !.captured_at = None, !.refunded_at = None]

\* o changed at most the status, refunded_amount and timestamps of record id
TouchesOnly(o, id) ==
  /\ DOMAIN o.db = Stored
  /\ o.cache = idempotency_cache
  /\ \A other \in Stored \ {id} : o.db[other] = payments_db[other]
  /\ id \in Stored => Rest(o.db[id]) = Rest(payments_db[id])

\* C18: no operation changes a stored payment's id, order_id, customer_id,
\* amount, currency, idempotency_key, authorization_code or decline_reason,
\* and none removes a record; capture, void and refund write only status,
\* refunded_amount and the timestamps of the record they address and leave
\* every other record untouched.
C18_CreationFieldsFixed ==
  /\ [](\A id \in PaymentIds, t \in Times :
          /\ TouchesOnly(CaptureOutcome(id, t), id)
          /\ TouchesOnly(VoidOutcome(id, t), id)
          /\ \A amount \in RefundAmounts :
               TouchesOnly(RefundOutcome(id, amount, t), id))
  /\ [][/\ Stored \subseteq DOMAIN payments_db'
        /\ \A id \in Stored : Fixed(payments_db'[id]) = Fixed(payments_db[id])]_vars

\* C18 witness: two stored payments, one partially refunded and the other
\* voided, so capture, refund and void have each written beside another record.
C18_Witness ==
  \E id \in Stored, other \in Stored :
    /\ payments_db[id].status = "partially_refunded"
    /\ payments_db[id].captured_at # None
    /\ payments_db[id].idempotency_key = Some("k1")
    /\ payments_db[other].status = "voided"
    /\ RefundOutcome(id, Some(1), now).code = 200

\* C19: a stored payment has status refunded iff refunded_amount = amount,
\* status partially_refunded iff 0 < refunded_amount < amount, and
\* refunded_amount = 0 in every other status (authorized, captured, declined,
\* voided); no stored payment has status pending or failed.
C19_StatusMatchesRefunds ==
  \A id \in Stored :
    LET p == payments_db[id] IN
    /\ p.status = "refunded" <=> p.refunded_amount = p.amount
    /\ p.status = "partially_refunded"
         <=> (0 < p.refunded_amount /\ p.refunded_amount < p.amount)
    /\ p.status \in {"authorized", "captured", "declined", "voided"}
         => p.refunded_amount = 0
    /\ p.status \in PaymentStatus \ {"pending", "failed"}

\* C19 witness: a payment refunded in two parts up to its amount, beside a
\* partially refunded one.
C19_Witness ==
  \E id \in Stored, other \in Stored :
    /\ payments_db[id].status = "refunded"
    /\ payments_db[id].amount = 2
    /\ payments_db[id].refunded_amount = 2
    /\ payments_db[other].status = "partially_refunded"
    /\ payments_db[other].refunded_amount = 1

(* ===================== the claims, under ConcSpec ====================== *)
Answered(th, op) == threads[th].pc = "done" /\ threads[th].op = op

\* the threads that got a payment back from authorize for key k
Callers(k) ==
  {th \in Threads :
     /\ Answered(th, "authorize")
     /\ Val(threads[th].arg).idempotency_key = Some(k)
     /\ threads[th].body # None}

\* C2: for the authorize calls that share one idempotency key, under every
\* interleaving, one payment record exists for the key, the gateway was
\* consulted once, and all callers got the same payment id.
C2_OnePaymentPerKey ==
  \A k \in {"k1"} :
    Callers(k) # {} =>
      /\ Cardinality({id \in Stored : payments_db[id].idempotency_key = Some(k)}) = 1
      /\ Cardinality({th \in Callers(k) : threads[th].gateway}) <= 1
      /\ \A a \in Callers(k), b \in Callers(k) : threads[a].body = threads[b].body

\* C5: two transitions (capture, void) on one payment id never both report
\* success: when one has succeeded, the other has failed, with
\* InvalidStateTransition if the payment existed when it was called.
C5_TransitionsSerialize ==
  \A a \in Threads, b \in Threads :
    (/\ a # b
     /\ threads[a].pc = "done" /\ threads[a].op \in {"capture", "void"}
     /\ threads[b].pc = "done" /\ threads[b].op \in {"capture", "void"}
     /\ threads[a].arg = threads[b].arg
     /\ threads[a].code = 200)
      => /\ threads[b].code # 200
         /\ threads[b].detail \in {"InvalidStateTransition", "NotFound"}

\* a refund of payment id is between its first read and its last write
RefundInFlight(id) ==
  \E th \in Threads :
    /\ threads[th].op = "refund"
    /\ threads[th].arg = Some(id)
    /\ threads[th].pc \in {"r_check", "r_load", "r_store", "r_stamp", "r_status"}

\* C16: concurrent refunds on one payment serialize: under every
\* interleaving refunded_amount never exceeds amount, two refunds that both
\* reported success are both counted in refunded_amount (no lost update),
\* and once no refund is in flight the status agrees with the total.
C16_RefundsSerialize ==
  /\ \A id \in Stored : payments_db[id].refunded_amount <= payments_db[id].amount
  /\ \A a \in Threads, b \in Threads :
       (/\ a # b
        /\ Answered(a, "refund") /\ threads[a].code = 200
        /\ Answered(b, "refund") /\ threads[b].code = 200
        /\ threads[a].arg = threads[b].arg)
         => payments_db[Val(threads[a].arg)].refunded_amount
              >= Val(threads[a].amount) + Val(threads[b].amount)
  /\ \A id \in Stored :
       (~RefundInFlight(id)
          /\ payments_db[id].status \in {"refunded", "partially_refunded"})
         => (payments_db[id].status = "refunded"
               <=> payments_db[id].refunded_amount = payments_db[id].amount)

\* C20: under every interleaving of concurrent authorize calls, each key in
\* the idempotency index maps to an id that is in the payment store and whose
\* record carries that key, and the id an idempotency hit is about to look up
\* is in the payment store.
C20_IndexPointsAtStoredRecord ==
  /\ \A k \in DOMAIN idempotency_cache :
       /\ idempotency_cache[k] \in DOMAIN payments_db
       /\ payments_db[idempotency_cache[k]].idempotency_key = Some(k)
  /\ \A th \in Threads :
       threads[th].pc = "a_hit"
         => /\ Val(threads[th].loc) \in DOMAIN payments_db
            /\ payments_db[Val(threads[th].loc)].idempotency_key
                 = Val(threads[th].arg).idempotency_key

\* C20 witness: one authorize call is answered from the index while another
\* call with the same key, which passed the check before the key was
\* registered, has stored its record and is about to register the key again.
C20_Witness ==
  \E a \in Threads, b \in Threads :
    /\ "k1" \in DOMAIN idempotency_cache
    /\ threads[a].pc = "a_hit"
    /\ threads[a].loc = Some(idempotency_cache["k1"])
    /\ threads[b].pc = "a_register"
    /\ Val(threads[b].arg).idempotency_key = Some("k1")
====
